---- MODULE Spec2Model ----
(***************************************************************************)
(* Model of soup_schema: selectors (Selector, AttrSelector,                *)
(* SchemaSelector, AnySelector) resolved against a parsed HTML document,   *)
(* and Schema.parse, which resolves every selector declared on a Schema    *)
(* subclass into a fresh instance.                                         *)
(*                                                                         *)
(* Python objects are records whose `kind` field is their class.  The      *)
(* BeautifulSoup tree is outside the package; a document is represented by *)
(* its elements in document order, and a CSS selector matches an element   *)
(* by its tag.                                                             *)
(***************************************************************************)
EXTENDS Naturals, Sequences, FiniteSets

VARIABLES doc, args, rule, pc, outcome, tried, heap, calls

vars == <<doc, args, rule, pc, outcome, tried, heap, calls>>

(***************************************************************************)
(* Bounds                                                                  *)
(***************************************************************************)
\* longest document a single selector is resolved against
MaxElems == 2
\* longest document an AnySelector is resolved against
MaxAnyElems == 1
\* most member selectors of an AnySelector
MaxMembers == 2
\* longest document Schema.parse is run on
MaxHtmlElems == 1
\* most selectors declared on a Schema subclass
MaxFields == 2

Tags == {"li", "p"}
Texts == {"", "t"}
AttrNames == {"content"}
AttrVals == {"", "c"}
\* attribute names an AttrSelector may ask for ("href" is on no element)
Attributes == {"content", "href"}
\* Schema classes a SchemaSelector may refer to
SchemaNames == {"ReviewSchema"}

Range(s) == {s[k] : k \in DOMAIN s}

Min(S) == CHOOSE m \in S : \A n \in S : m <= n

(***************************************************************************)
(* Python values                                                           *)
(***************************************************************************)
None == [kind |-> "NoneType"]

PyStr(s) == [kind |-> "str", s |-> s]

PyList(l) == [kind |-> "list", l |-> l]

\* bool(value), as used by `not value` and `if value:`
Truthy(v) ==
    CASE v.kind = "NoneType" -> FALSE
      [] v.kind = "str" -> v.s # ""
      [] v.kind = "list" -> Len(v.l) > 0
      [] OTHER -> TRUE

\* how a call ends
Returned(v) == [status |-> "returned", value |-> v]

Raised(e) == [status |-> "raised", exc |-> e]

NoOutcome == [status |-> "none"]

(***************************************************************************)
(* Class hierarchy                                                         *)
(***************************************************************************)
Mro(cls) ==
    CASE cls = "Selector" -> <<"Selector", "object">>
      [] cls = "AttrSelector" -> <<"AttrSelector", "Selector", "object">>
      [] cls = "SchemaSelector" -> <<"SchemaSelector", "Selector", "object">>
      [] cls = "AnySelector" -> <<"AnySelector", "Selector", "object">>
      [] OTHER -> <<cls, "object">>

IsInstance(obj, cls) == cls \in Range(Mro(obj.kind))

\* super(cls, self) is only defined when self is an instance of cls
SuperOk(cls, selfKind) == cls \in Range(Mro(selfKind))

\* the methods class Schema defines
SchemaMethods == {"_get_selectors", "parse", "__repr__"}

(***************************************************************************)
(* Documents (the bs4 tree, by its elements in document order)             *)
(***************************************************************************)
AttrMaps == UNION {[S -> AttrVals] : S \in SUBSET AttrNames}

Elements == [tag : Tags, attrs : AttrMaps, text : Texts]

DocsUpTo(n) == UNION {[1..k -> Elements] : k \in 0..n}

NoElm == [tag |-> "none"]

\* soup.select(selector): every matching element, in document order
Select(soup, selector) == SelectSeq(soup, LAMBDA e : e.tag = selector)

\* soup.select_one(selector): the first matching element or None
SelectOne(soup, selector) ==
    IF Select(soup, selector) = <<>> THEN NoElm ELSE Head(Select(soup, selector))

\* BeautifulSoup(html, 'html.parser'): markup is represented by the element
\* sequence it parses to
BeautifulSoup(html) == html

(***************************************************************************)
(* Constructors                                                            *)
(***************************************************************************)
SelectorInit(kind, selector, required, as_list) ==
    [kind |-> kind, selector |-> selector, as_list |-> as_list, required |-> required]

NewSelector(a) == Returned(SelectorInit("Selector", a.selector, a.required, a.as_list))

NewAttrSelector(a) ==
    IF SuperOk("AttrSelector", "AttrSelector")
    THEN Returned([kind |-> "AttrSelector", selector |-> a.selector,
                   as_list |-> a.as_list, required |-> a.required,
                   attribute |-> a.attribute])
    ELSE Raised("TypeError")

\* SchemaSelector.__init__ calls super(AttrSelector, self).__init__
NewSchemaSelector(a) ==
    IF SuperOk("AttrSelector", "SchemaSelector")
    THEN Returned([kind |-> "SchemaSelector", selector |-> a.selector,
                   as_list |-> a.as_list, required |-> a.required,
                   schema |-> a.schema])
    ELSE Raised("TypeError")

NewAnySelector(a) ==
    Returned([kind |-> "AnySelector", selectors |-> a.selectors, required |-> a.required])

(***************************************************************************)
(* Value extraction                                                        *)
(***************************************************************************)
SelectorGetValue(elm) ==
    IF elm = NoElm THEN Returned(None)
    ELSE IF "content" \in DOMAIN elm.attrs THEN Returned(PyStr(elm.attrs["content"]))
    ELSE Returned(PyStr(elm.text))

AttrGetValue(self, elm) ==
    IF elm = NoElm THEN Returned(None)
    ELSE IF self.attribute \in DOMAIN elm.attrs
         THEN Returned(PyStr(elm.attrs[self.attribute]))
         ELSE Returned(None)

\* self.schema.resolve(elm): class Schema defines no `resolve`
SchemaGetValue(self, elm) ==
    IF "resolve" \in SchemaMethods
    THEN Returned([kind |-> self.schema, root |-> elm])
    ELSE Raised("AttributeError")

\* self._get_value(elm), dispatched on the class of self
GetValue(self, elm) ==
    CASE self.kind = "AttrSelector" -> AttrGetValue(self, elm)
      [] self.kind = "SchemaSelector" -> SchemaGetValue(self, elm)
      [] OTHER -> SelectorGetValue(elm)

(***************************************************************************)
(* Selector.resolve                                                        *)
(***************************************************************************)
\* variant: `value is None and self.required`
ResolveFailsNoneOnly(self, value) == value = None /\ self.required

\* variant: a list counts as empty when none of its entries is truthy
ResolveFailsAllEmpty(self, value) ==
    /\ self.required
    /\ \/ ~Truthy(value)
       \/ value.kind = "list" /\ \A k \in 1..Len(value.l) : ~Truthy(value.l[k])

\* `not value and self.required`
ResolveFails(self, value) == ~Truthy(value) /\ self.required

\* variant: `value = [...] or None`
ResolveValueOrNone(self, soup) ==
    LET elms == IF self.as_list THEN Select(soup, self.selector)
                ELSE <<SelectOne(soup, self.selector)>>
        vals == [k \in 1..Len(elms) |-> GetValue(self, elms[k])]
    IN  IF self.as_list
        THEN IF elms = <<>> THEN Returned(None)
             ELSE Returned(PyList([k \in 1..Len(elms) |-> vals[k].value]))
        ELSE Returned(vals[1].value)

\* the value computed for the selector before the required check
ResolveValue(self, soup) ==
    LET elms == IF self.as_list THEN Select(soup, self.selector)
                ELSE <<SelectOne(soup, self.selector)>>
        vals == [k \in 1..Len(elms) |-> GetValue(self, elms[k])]
        bad == {k \in 1..Len(elms) : vals[k].status = "raised"}
    IN  IF bad # {} THEN vals[Min(bad)]
        ELSE IF self.as_list
             THEN Returned(PyList([k \in 1..Len(elms) |-> vals[k].value]))
             ELSE Returned(vals[1].value)

Resolve(self, soup) ==
    LET v == ResolveValue(self, BeautifulSoup(soup))
    IN  IF v.status = "raised" THEN v
        ELSE IF ResolveFails(self, v.value) THEN Raised("ValidationError")
        ELSE Returned(v.value)

(***************************************************************************)
(* AnySelector.resolve                                                     *)
(***************************************************************************)
\* variant: `if value is not None: return value`
MemberAcceptedNotNone(r) == r.status = "returned" /\ r.value # None

\* `if value: return value`
MemberAccepted(r) == r.status = "returned" /\ Truthy(r.value)

\* variant: no try/except around the member's resolve
MemberNotSwallowed(r) == FALSE

\* `except ValidationError: pass`
MemberSwallowed(r) == r.status = "raised" /\ r.exc = "ValidationError"

\* variant: `return []` after the loop
AnyExhaustedEmptyList(self) ==
    IF self.required THEN Raised("ValidationError") ELSE Returned(PyList(<<>>))

\* after the loop: raise if required, else fall off the end (return None)
AnyExhausted(self) ==
    IF self.required THEN Raised("ValidationError") ELSE Returned(None)

RECURSIVE ResolveRule(_, _), AnyResolveFrom(_, _, _, _)

\* the loop over self.selectors from member k on; log lists the members
\* whose resolve has been called
AnyResolveFrom(self, soup, k, log) ==
    IF k > Len(self.selectors)
    THEN [out |-> AnyExhausted(self), tried |-> log]
    ELSE LET r == ResolveRule(self.selectors[k], soup)
         IN  IF MemberAccepted(r) \/ (r.status = "raised" /\ ~MemberSwallowed(r))
             THEN [out |-> r, tried |-> Append(log, k)]
             ELSE AnyResolveFrom(self, soup, k + 1, Append(log, k))

AnyResolve(self, soup) == AnyResolveFrom(self, soup, 1, <<>>)

\* value.resolve(soup), dispatched on the class of the selector
ResolveRule(self, soup) ==
    IF self.kind = "AnySelector" THEN AnyResolve(self, soup).out
    ELSE Resolve(self, soup)

(***************************************************************************)
(* Inputs                                                                  *)
(***************************************************************************)
SelectorArgs ==
    [cls : {"Selector"}, selector : Tags, required : BOOLEAN, as_list : BOOLEAN]

AttrSelectorArgs ==
    [cls : {"AttrSelector"}, selector : Tags, attribute : Attributes,
     required : BOOLEAN, as_list : BOOLEAN]

SchemaSelectorArgs ==
    [cls : {"SchemaSelector"}, selector : Tags, schema : SchemaNames,
     required : BOOLEAN, as_list : BOOLEAN]

\* selectors that can be members of an AnySelector: every Selector, and the
\* AttrSelectors that read one value from an attribute elements can carry
MemberRules ==
    {NewSelector(a).value : a \in SelectorArgs}
    \cup {NewAttrSelector(a).value :
            a \in {b \in AttrSelectorArgs : b.attribute \in AttrNames /\ ~b.as_list}}

AnySelectorArgs ==
    [cls : {"AnySelector"},
     selectors : UNION {[1..n -> MemberRules] : n \in 0..MaxMembers},
     required : BOOLEAN]

NoRule == [kind |-> "unbound"]

Calls == {"c1", "c2"}

IdleCall == [pc |-> "idle", i |-> 0, log |-> <<>>, ret |-> None]

(***************************************************************************)
(* Constructing and resolving one selector                                 *)
(***************************************************************************)
Construct(r) ==
    /\ pc = "new"
    /\ IF r.status = "returned"
       THEN rule' = r.value /\ pc' = "constructed" /\ outcome' = outcome
       ELSE rule' = rule /\ pc' = "failed" /\ outcome' = r
    /\ UNCHANGED <<doc, args, tried, heap, calls>>

ConstructSelector == args.cls = "Selector" /\ Construct(NewSelector(args))

ConstructAttrSelector == args.cls = "AttrSelector" /\ Construct(NewAttrSelector(args))

ConstructSchemaSelector ==
    args.cls = "SchemaSelector" /\ Construct(NewSchemaSelector(args))

ConstructAnySelector == args.cls = "AnySelector" /\ Construct(NewAnySelector(args))

\* rule.resolve(doc) for Selector, AttrSelector, SchemaSelector
ResolveCall ==
    /\ pc = "constructed"
    /\ rule.kind # "AnySelector"
    /\ outcome' = Resolve(rule, doc)
    /\ pc' = outcome'.status
    /\ UNCHANGED <<doc, args, rule, tried, heap, calls>>

\* rule.resolve(doc) for AnySelector
AnyResolveCall ==
    /\ pc = "constructed"
    /\ rule.kind = "AnySelector"
    /\ outcome' = AnyResolve(rule, doc).out
    /\ tried' = AnyResolve(rule, doc).tried
    /\ pc' = outcome'.status
    /\ UNCHANGED <<doc, args, rule, heap, calls>>

InitCommon ==
    /\ rule = NoRule
    /\ pc = "new"
    /\ outcome = NoOutcome
    /\ tried = <<>>
    /\ calls = [c \in Calls |-> IdleCall]

NoHeap == [o \in {"cls"} \cup Calls |-> <<>>]

InitRule ==
    /\ doc \in DocsUpTo(MaxElems)
    /\ args \in SelectorArgs \cup AttrSelectorArgs \cup SchemaSelectorArgs
    /\ heap = NoHeap
    /\ InitCommon

NextRule ==
    \/ ConstructSelector
    \/ ConstructAttrSelector
    \/ ConstructSchemaSelector
    \/ ResolveCall

SpecRule == InitRule /\ [][NextRule]_vars

InitAny ==
    /\ doc \in DocsUpTo(MaxAnyElems)
    /\ args \in AnySelectorArgs
    /\ heap = NoHeap
    /\ InitCommon

NextAny ==
    \/ ConstructAnySelector
    \/ AnyResolveCall

SpecAny == InitAny /\ [][NextAny]_vars

(***************************************************************************)
(* Schema                                                                  *)
(***************************************************************************)
FieldNames == <<"a", "b", "c", "d">>

\* selectors a Schema subclass may declare
FieldRules ==
    {NewSelector(a).value : a \in {b \in SelectorArgs : ~b.as_list}}
    \cup {NewSelector([cls |-> "Selector", selector |-> "li",
                       required |-> FALSE, as_list |-> TRUE]).value}
    \cup {NewAnySelector([cls |-> "AnySelector", required |-> TRUE,
            selectors |-> <<SelectorInit("Selector", "li", FALSE, FALSE),
                            SelectorInit("Selector", "p", TRUE, FALSE)>>]).value}

\* class bodies: the selectors assigned in the body, in declaration order
ClassBodies ==
    UNION {[1..n -> FieldRules] : n \in 0..MaxFields}

\* cls.__dict__ after the class statement: the entries the interpreter adds,
\* then one entry per assignment of the body, in order
ClassDict(body) ==
    <<[name |-> "__module__", value |-> PyStr("schemas")]>>
    \o [k \in 1..Len(body) |-> [name |-> FieldNames[k], value |-> body[k]]]

\* variant: `type(value) is Selector`
GetSelectorsExactType(clsDict) ==
    SelectSeq(clsDict, LAMBDA it : it.value.kind = "Selector")

\* cls._get_selectors(): the (name, value) items that are Selector instances
GetSelectors(clsDict) ==
    SelectSeq(clsDict, LAMBDA it : IsInstance(it.value, "Selector"))

\* d[name] = value on an attribute dictionary
DictSet(d, name, value) ==
    IF \E k \in 1..Len(d) : d[k].name = name
    THEN [k \in 1..Len(d) |->
            IF d[k].name = name THEN [name |-> name, value |-> value] ELSE d[k]]
    ELSE Append(d, [name |-> name, value |-> value])

\* variant: `setattr(cls, name, value)`
SetAttrOnClass(h, obj, name, value) ==
    [h EXCEPT !["cls"] = DictSet(h["cls"], name, value)]

\* setattr(obj, name, value)
SetAttr(h, obj, name, value) == [h EXCEPT ![obj] = DictSet(h[obj], name, value)]

\* variant: a failing selector is skipped and the loop goes on
FieldStepContinue(call, name, r) ==
    [call EXCEPT !.i = @ + 1, !.log = Append(@, name)]

\* one pass of the loop body of parse: r is what value.resolve(soup) did
FieldStep(call, name, r) ==
    IF r.status = "raised"
    THEN [call EXCEPT !.pc = "raised", !.log = Append(@, name)]
    ELSE [call EXCEPT !.i = @ + 1, !.log = Append(@, name)]

\* instance = cls(); soup = BeautifulSoup(html, 'html.parser')
ParseBegin(c) ==
    /\ calls[c].pc = "idle"
    /\ heap' = [heap EXCEPT ![c] = <<>>]
    /\ calls' = [calls EXCEPT ![c] = [@ EXCEPT !.pc = "loop", !.i = 1]]
    /\ UNCHANGED <<doc, args, rule, pc, outcome, tried>>

\* setattr(instance, name, value.resolve(soup)) for the next selector
ParseField(c) ==
    /\ calls[c].pc = "loop"
    /\ calls[c].i <= Len(GetSelectors(heap["cls"]))
    /\ LET it == GetSelectors(heap["cls"])[calls[c].i]
           r == ResolveRule(it.value, BeautifulSoup(doc))
       IN  /\ calls' = [calls EXCEPT ![c] = FieldStep(@, it.name, r)]
           /\ heap' = IF r.status = "returned"
                      THEN SetAttr(heap, c, it.name, r.value)
                      ELSE heap
    /\ UNCHANGED <<doc, args, rule, pc, outcome, tried>>

\* return instance
ParseReturn(c) ==
    /\ calls[c].pc = "loop"
    /\ calls[c].i > Len(GetSelectors(heap["cls"]))
    /\ calls' = [calls EXCEPT ![c] =
                    [@ EXCEPT !.pc = "returned", !.ret = [kind |-> "Schema", id |-> c]]]
    /\ UNCHANGED <<doc, args, rule, pc, outcome, tried, heap>>

InitParse ==
    /\ doc \in DocsUpTo(MaxHtmlElems)
    /\ args \in ClassBodies
    /\ heap = [NoHeap EXCEPT !["cls"] = ClassDict(args)]
    /\ InitCommon

NextParse ==
    \/ \E c \in Calls : ParseBegin(c)
    \/ \E c \in Calls : ParseField(c)
    \/ \E c \in Calls : ParseReturn(c)

SpecParse == InitParse /\ [][NextParse]_vars

(***************************************************************************)
(* Properties of Selector.resolve and AttrSelector.resolve (SpecRule)      *)
(***************************************************************************)
Resolved == pc \in {"returned", "raised"}

SimpleRule == rule.kind \in {"Selector", "AttrSelector"}

\* the elements the rule's pattern matches, in document order
Matched == Select(doc, rule.selector)

\* the value extracted for the rule: one entry per match, or the first match
Extracted ==
    IF rule.as_list
    THEN PyList([k \in 1..Len(Matched) |-> GetValue(rule, Matched[k]).value])
    ELSE GetValue(rule, SelectOne(doc, rule.selector)).value

\* absent, empty string, or empty sequence
IsFalsy(v) == v = None \/ v = PyStr("") \/ v = PyList(<<>>)

\* C1: resolve raises ValidationError exactly when required is true and the
\* extracted value is absent, an empty string or an empty sequence; otherwise
\* it returns the extracted value.  With multi=false and no match it raises
\* when required and returns None when not.
C1_RaisesIffRequiredAndFalsy ==
    (Resolved /\ SimpleRule) =>
        /\ (outcome.status = "raised") <=> (rule.required /\ IsFalsy(Extracted))
        /\ outcome.status = "raised" => outcome.exc = "ValidationError"
        /\ outcome.status = "returned" => outcome.value = Extracted
        /\ (~rule.as_list /\ Matched = <<>>) =>
              IF rule.required THEN outcome = Raised("ValidationError")
              ELSE outcome = Returned(None)

\* a required scalar rule whose first match carries an empty string raised
C1_Witness ==
    /\ pc = "raised"
    /\ SimpleRule
    /\ ~rule.as_list
    /\ Matched # <<>>
    /\ Extracted = PyStr("")

\* C2 (as stated): a multi=true rule always returns a sequence, whatever
\* required is and however many elements match.
C2_AlwaysReturnsSequence ==
    (Resolved /\ SimpleRule /\ rule.as_list) =>
        /\ outcome.status = "returned"
        /\ outcome.value.kind = "list"

\* C2 (amended): a multi=true rule never yields None: whenever resolve returns,
\* the result is a sequence; it returns for every match count when required is
\* false, and raises ValidationError only when required and nothing matches.
C2_SequenceWheneverReturns ==
    (Resolved /\ SimpleRule /\ rule.as_list) =>
        /\ outcome.status = "returned" => outcome.value.kind = "list"
        /\ ~rule.required => outcome.status = "returned"
        /\ outcome.status = "raised" =>
              /\ rule.required
              /\ Matched = <<>>
              /\ outcome.exc = "ValidationError"

\* an optional multi=true rule matched nothing and returned the empty list
C2_Witness ==
    /\ pc = "returned"
    /\ SimpleRule
    /\ rule.as_list
    /\ Matched = <<>>
    /\ outcome.value = PyList(<<>>)

\* C10: for a multi=true rule the required check depends only on the number
\* of matches: with at least one match resolve returns one entry per match in
\* document order, even if every entry is None or ""; it raises exactly when
\* nothing matches and required is true.
C10_ListRequiredCountsMatches ==
    (Resolved /\ SimpleRule /\ rule.as_list) =>
        /\ Len(Matched) >= 1 =>
              /\ outcome.status = "returned"
              /\ outcome.value.kind = "list"
              /\ Len(outcome.value.l) = Len(Matched)
              /\ \A k \in 1..Len(Matched) :
                    outcome.value.l[k] = GetValue(rule, Matched[k]).value
        /\ (outcome.status = "raised") <=> (Len(Matched) = 0 /\ rule.required)

\* a required AttrSelector list over two matches, all lacking a usable
\* attribute value, returned two falsy entries
C10_Witness ==
    /\ pc = "returned"
    /\ rule.kind = "AttrSelector"
    /\ rule.as_list
    /\ rule.required
    /\ Len(Matched) >= 2
    /\ \A k \in 1..Len(outcome.value.l) : ~Truthy(outcome.value.l[k])
    /\ \E k \in 1..Len(outcome.value.l) : outcome.value.l[k] = None

\* C7: a SchemaSelector resolves to one nested record per matched element, in
\* document order, each resolved against its own element (multi=true), or to
\* one record for the first match or None when nothing matches (multi=false).
C7_NestedYieldsRecordPerMatch ==
    (args.cls = "SchemaSelector" /\ pc \in {"failed", "returned", "raised"}) =>
        LET m == Select(doc, args.selector)
        IN  /\ outcome.status = "returned"
            /\ IF args.as_list
               THEN outcome.value =
                       PyList([k \in 1..Len(m) |-> [kind |-> args.schema, root |-> m[k]]])
               ELSE outcome.value =
                       IF m = <<>> THEN None ELSE [kind |-> args.schema, root |-> m[1]]

(***************************************************************************)
(* Properties of AnySelector.resolve (SpecAny)                             *)
(***************************************************************************)
AnyDone == Resolved /\ rule.kind = "AnySelector"

\* what member k's own resolve does on the document
MemberOut(k) == ResolveRule(rule.selectors[k], doc)

\* members whose resolve returns a truthy value
Winners ==
    {k \in 1..Len(rule.selectors) :
        MemberOut(k).status = "returned" /\ Truthy(MemberOut(k).value)}

\* C3: the result is the value of the first member (left to right) whose
\* resolve yields a truthy value; members that raise ValidationError before
\* it are passed over, and no member after it is resolved.
C3_FirstTruthyMemberWins ==
    (AnyDone /\ Winners # {}) =>
        /\ outcome = Returned(MemberOut(Min(Winners)).value)
        /\ tried = [k \in 1..Min(Winners) |-> k]

\* the first member raised ValidationError and the second supplied the result
C3_Witness ==
    /\ AnyDone
    /\ Len(rule.selectors) = 2
    /\ MemberOut(1) = Raised("ValidationError")
    /\ Winners = {2}
    /\ outcome = Returned(MemberOut(2).value)
    /\ tried = <<1, 2>>

\* C4: when no member yields a truthy value, resolve raises ValidationError if
\* the AnySelector's own required is true and returns None if it is false,
\* whatever the members' required flags are; every member has been tried.
C4_ExhaustedFollowsOwnRequired ==
    (AnyDone /\ Winners = {}) =>
        /\ outcome = IF rule.required THEN Raised("ValidationError") ELSE Returned(None)
        /\ tried = [k \in 1..Len(rule.selectors) |-> k]

\* an optional AnySelector whose members raised or returned an empty list
\* returned None
C4_Witness ==
    /\ AnyDone
    /\ ~rule.required
    /\ Len(rule.selectors) = 2
    /\ MemberOut(1) = Raised("ValidationError")
    /\ MemberOut(2) = Returned(PyList(<<>>))
    /\ outcome = Returned(None)

\* a list whose elements are all empty strings
AllEmptyStrings(v) ==
    v.kind = "list" /\ \A k \in 1..Len(v.l) : v.l[k] = PyStr("")

\* C5 (as stated): an empty string, or a list whose elements are all empty
\* strings, is never the result of an AnySelector.
C5_FalsyPresentNeverResult ==
    (AnyDone /\ outcome.status = "returned") =>
        ~(outcome.value = PyStr("") \/ AllEmptyStrings(outcome.value))

\* C5 (amended): a member value that is an empty string or an empty list is
\* treated as no match: it is never the result and the next member is tried.
\* A non-empty list is a match even when all its elements are empty strings:
\* it is the result and no later member is tried.
C5_EmptyValueSkipped ==
    AnyDone =>
        /\ outcome.status = "returned" =>
              outcome.value \notin {PyStr(""), PyList(<<>>)}
        /\ \A j \in 1..Len(tried) :
              LET r == MemberOut(tried[j])
              IN  /\ (r.status = "returned" /\ r.value \in {PyStr(""), PyList(<<>>)}) =>
                        IF tried[j] < Len(rule.selectors)
                        THEN j < Len(tried) /\ tried[j + 1] = tried[j] + 1
                        ELSE outcome = AnyExhausted(rule)
                  /\ (r.status = "returned" /\ r.value.kind = "list" /\ Len(r.value.l) > 0) =>
                        j = Len(tried) /\ outcome = r

\* the first member returned "" and was skipped; the second gave the result
C5_Witness ==
    /\ AnyDone
    /\ Len(rule.selectors) = 2
    /\ MemberOut(1) = Returned(PyStr(""))
    /\ tried = <<1, 2>>
    /\ outcome.status = "returned"
    /\ outcome = MemberOut(2)

(***************************************************************************)
(* Properties of Schema.parse (SpecParse)                                  *)
(***************************************************************************)
\* what the k-th declared selector's resolve does on the document
FieldOut(k) == ResolveRule(args[k], doc)

\* declared selectors whose resolve raises
Failing == {k \in 1..Len(args) : FieldOut(k).status = "raised"}

\* C6: parse resolves the fields in declaration order and stops at the first
\* one whose resolve raises: no later field is resolved and no instance is
\* returned.
C6_ParseFailFast ==
    \A c \in Calls :
        LET call == calls[c]
        IN  /\ call.log = [k \in 1..Len(call.log) |-> FieldNames[k]]
            /\ Failing # {} =>
                  /\ Len(call.log) <= Min(Failing)
                  /\ call.pc # "returned"
                  /\ call.ret = None
            /\ call.pc = "raised" =>
                  /\ Failing # {}
                  /\ Len(call.log) = Min(Failing)

\* fields [a (required, fails), b (would succeed)]: parse raised after a
C6_Witness ==
    \E c \in Calls :
        /\ calls[c].pc = "raised"
        /\ Len(args) = 2
        /\ Failing = {1}
        /\ Truthy(FieldOut(2).value)
        /\ calls[c].log = <<"a">>

\* C8: the instance parse returns has exactly one attribute per declared
\* field, set to what the field's selector resolved to on the document.
C8_InstanceHasEveryField ==
    \A c \in Calls :
        calls[c].pc = "returned" =>
            /\ calls[c].ret = [kind |-> "Schema", id |-> c]
            /\ Len(heap[c]) = Len(args)
            /\ \A k \in 1..Len(args) :
                  /\ FieldOut(k).status = "returned"
                  /\ heap[c][k] = [name |-> FieldNames[k], value |-> FieldOut(k).value]

\* a returned instance with two fields, one of them None, one of them found
C8_Witness ==
    \E c \in Calls :
        /\ calls[c].pc = "returned"
        /\ Len(heap[c]) = 2
        /\ \E k \in 1..2 : heap[c][k].value = None
        /\ \E k \in 1..2 : Truthy(heap[c][k].value) /\ args[k].kind = "AnySelector"

\* C9: no step of parse changes the class dictionary (the declared selectors
\* and their selector/required/as_list attributes); a step writes at most the
\* instance of the call that takes it; a finished call's instance is never
\* written again; two calls that both returned produced equal instances.
C9_ParseWritesOnlyOwnInstance ==
    [][ /\ heap'["cls"] = heap["cls"]
        /\ heap["cls"] = ClassDict(args)
        /\ \A c \in Calls :
              /\ heap'[c] # heap[c] =>
                    /\ calls'[c] # calls[c]
                    /\ \A d \in Calls \ {c} : heap'[d] = heap[d]
              /\ calls[c].pc \in {"returned", "raised"} =>
                    heap'[c] = heap[c] /\ calls'[c] = calls[c]
        /\ \A c, d \in Calls :
              (calls[c].pc = "returned" /\ calls[d].pc = "returned") =>
                  heap[c] = heap[d]
      ]_vars

\* two calls in flight at once, each having written to its own instance
C9_Witness ==
    /\ \A c \in Calls : calls[c].pc = "loop" /\ heap[c] # <<>>
    /\ Len(args) = 2

====
